---- MODULE Spec2Model ----
(***************************************************************************)
(* Model of the forestd control daemon (src/forestd/main.go): the listener *)
(* of main, one handleRequest goroutine per accepted connection, the       *)
(* Process Runner (execute) and the Status Prober (isActiveWireGuard).     *)
(*                                                                         *)
(* Go strings are modelled as sequences of one-character strings, so that  *)
(* strings.Fields, strings.Join and strings.Contains are computed as the   *)
(* library computes them.  A response frame is a sequence of bytes.        *)
(***************************************************************************)
EXTENDS Integers, Sequences, FiniteSets, TLC

\* ------------------------------------------------------------------ bounds
NConns == 2
MaxFrames == 2
MaxLen == 3

Conns == 1..NConns

\* --------------------------------------------------------- string literals
S_connect == <<"c","o","n","n","e","c","t">>
S_disconnect == <<"d","i","s","c","o","n","n","e","c","t">>
S_status == <<"s","t","a","t","u","s">>
S_up == <<"u","p">>
S_down == <<"d","o","w","n">>
S_empty == <<>>

\* Framing codec constants (their Go source file is not part of src/).
DELIMITER == 10
QUIT_SIGN == <<"q","u","i","t","!">>

\* Payloads a peer may put into a frame.
P_empty == <<>>
P_blank == <<" ">>
P_connectA == S_connect \o <<" ","a">>
P_disconnectB == S_disconnect \o <<" ","b">>
P_status == S_status
P_connectBare == S_connect
P_disconnectBare == S_disconnect \o <<" ">>
P_foo == <<"f","o","o">>
P_fooA == <<"f","o","o"," ","a">>
P_conA == <<"c","o","n"," ","a">>
P_tcA == <<"t","c"," ","a">>

Payloads ==
  { P_empty, P_blank, P_connectA, P_disconnectB, P_status, P_connectBare,
    P_disconnectBare, P_foo, P_fooA, P_conA, P_tcA, QUIT_SIGN }

NoFrame == <<"<none>">>

\* Outcomes of Read: no error, a recoverable decode error, an I/O error.
ReadErrs == {"nil", "decode", "io"}

\* What Read returns as content together with a decode error: nothing, or
\* the bytes it had decoded.  With an I/O error it returns nothing.
ErrContents == {P_empty, P_connectA}

\* Exit statuses syscall.WaitStatus.ExitStatus() can yield for a process
\* that did not exit cleanly: an exit code 1..255, or -1 when signalled.
ExitCodes == {0, 2, 200, -1}

\* Outcomes of exec.Command("wg", "show").Output(): output and no error, no
\* output and no error, an error without output, an error after some output.
ProbeOutcomes == {"output", "empty", "error", "error+output"}

\* ------------------------------------------------------------ Go library
IsSpace(ch) == ch = " "

RECURSIVE FieldsFrom(_, _, _)
FieldsFrom(s, i, cur) ==
  IF i > Len(s)
    THEN (IF cur = <<>> THEN <<>> ELSE <<cur>>)
    ELSE IF IsSpace(s[i])
      THEN (IF cur = <<>> THEN FieldsFrom(s, i + 1, <<>>)
                          ELSE <<cur>> \o FieldsFrom(s, i + 1, <<>>))
      ELSE FieldsFrom(s, i + 1, Append(cur, s[i]))

\* strings.Fields
Fields(s) == FieldsFrom(s, 1, <<>>)

RECURSIVE Join(_)
\* strings.Join(elems, "")
Join(elems) == IF elems = <<>> THEN <<>> ELSE Head(elems) \o Join(Tail(elems))

\* strings.Contains
Contains(s, substr) ==
  \E k \in 0..(Len(s) - Len(substr)) : SubSeq(s, k + 1, k + Len(substr)) = substr

\* The UTF-8 bytes fmt's %c verb prints for an integer: the rune itself, or
\* U+FFFD for an integer that is no valid code point.
EncodeRune(r) ==
  IF r < 0 \/ r > 1114111 \/ (r >= 55296 /\ r <= 57343) THEN <<239, 191, 189>>
  ELSE IF r < 128 THEN <<r>>
  ELSE IF r < 2048 THEN <<192 + (r \div 64), 128 + (r % 64)>>
  ELSE IF r < 65536
    THEN <<224 + (r \div 4096), 128 + ((r \div 64) % 64), 128 + (r % 64)>>
  ELSE <<240 + (r \div 262144), 128 + ((r \div 4096) % 64),
         128 + ((r \div 64) % 64), 128 + (r % 64)>>

ResponseNoDelimiter(st) == EncodeRune(st)

\* fmt.Sprintf("%c%c", status, DELIMITER)
Response(st) == EncodeRune(st) \o EncodeRune(DELIMITER)

\* ------------------------------------------------------------------ state
VARIABLES
  daemon,        \* "init", "running", "exited" (os.Exit(1)) or "panicked"
  pc,            \* per connection: where its handler goroutine is
  knownActions,  \* handleRequest's knownActions slice
  command,       \* handleRequest's command (*exec.Cmd)
  status,        \* handleRequest's status
  config,        \* handleRequest's config
  broken,        \* the connection has failed with an unrecoverable I/O error
  out,           \* the last response frame the handler passed to Write
  reads,         \* number of Read calls that returned on the connection
  writes,        \* number of Write calls made on the connection
  last,          \* content returned by the handler's latest Read
  rerr,          \* error returned by the handler's latest Read
  during,        \* the latest frame was read while another handler's
                 \* lifecycle process was running
  \* --- one run of the CLI (src/src/main.go), `state up` or `state down`
  cpc,           \* where the CLI run is ("off": no CLI run in this behaviour)
  sub,           \* the subcommand: "up" or "down"
  bid,           \* b.GetBundleId()
  left,          \* exp.Sub(now), in seconds
  loc,           \* device.GetLocation().GetId()
  gate,          \* outcome of the entitlement checks: "none", "deny", "allow"
  probe,         \* outcome of the latest `wg show` run for this CLI
  reply,         \* status the latest status query returned to the CLI
  sent,          \* verbs of the commands the CLI sent to the daemon
  printed,       \* lines the CLI printed
  retErr,        \* error the command's Action returned (NoErr: none)
  errOut,        \* the line main printed for that error
  exit,          \* exit status of the CLI process (-1: still running)
  \* --- one frame passing through the framing codec
  stage,         \* "off", "new", "encoded", "decoded"
  payload,       \* the payload the writer framed
  wire,          \* the bytes on the connection
  decoded,       \* what the reader decoded
  \* --- one run of an account command: `location set` (src/src/main.go) or
  \* `login` (src/src/cmd/main.go)
  apc,           \* where the run is ("off": no such run in this behaviour)
  acmd,          \* the command: "set" or "login"
  arg,           \* cCtx.Args().Get(0)
  locations,     \* the list the location service returns
  abid,          \* b.GetBundleId()
  aexpired,      \* time.Now().After(b.GetExpiryDate())
  premiumUser,   \* actions.IsPremiumUser(billingFeature)
  found,         \* the Action's found
  location,      \* the Action's location (a LocationWrapper)
  applied,       \* identifier of the location made the default (or NotApplied)
  aline,         \* what the run printed last
  aerr           \* the error the Action returned

daemonVars == <<daemon, pc, knownActions, command, status, config, broken, out,
                reads, writes, last, rerr, during>>

cliVars == <<cpc, sub, bid, left, loc, gate, probe, reply, sent, printed,
             retErr, errOut, exit>>

codecVars == <<stage, payload, wire, decoded>>

acctVars == <<apc, acmd, arg, locations, abid, aexpired, premiumUser, found,
              location, applied, aline, aerr>>

vars == <<daemonVars, cliVars, codecVars, acctVars>>

\* var command *exec.Cmd
NilCmd == [op |-> S_empty, cfg |-> S_empty, state |-> "nil"]

\* exec.Command("wg-quick", op, cfg)
NewCmd(op, cfg) == [op |-> op, cfg |-> cfg, state |-> "fresh"]

NoErr == <<"<nil>">>

\* No CLI run takes part in the behaviour.
CliOff ==
  /\ cpc = "off" /\ sub = "up" /\ bid = "" /\ left = 0 /\ loc = <<>>
  /\ gate = "none" /\ probe = "none" /\ reply = 0 /\ sent = <<>>
  /\ printed = <<>> /\ retErr = NoErr /\ errOut = <<>> /\ exit = -1

\* No codec run takes part in the behaviour.
CodecOff ==
  /\ stage = "off" /\ payload = <<>> /\ wire = <<>> /\ decoded = <<>>

\* var location actions.LocationWrapper
ZeroWrapper == [Location |-> [id |-> <<>>, name |-> <<>>], Premium |-> FALSE]

NotApplied == <<"<none>">>

\* No account command takes part in the behaviour.
AcctOff ==
  /\ apc = "off" /\ acmd = "set" /\ arg = <<>> /\ locations = <<>>
  /\ abid = "" /\ aexpired = FALSE /\ premiumUser = FALSE /\ found = FALSE
  /\ location = ZeroWrapper /\ applied = NotApplied /\ aline = "none"
  /\ aerr = "nil"

\* No daemon takes part in the behaviour.
DaemonOff ==
  /\ daemon = "off"
  /\ pc = [c \in Conns |-> "none"]
  /\ knownActions = [c \in Conns |-> <<>>]
  /\ command = [c \in Conns |-> NilCmd]
  /\ status = [c \in Conns |-> 0]
  /\ config = [c \in Conns |-> S_empty]
  /\ broken = [c \in Conns |-> FALSE]
  /\ out = [c \in Conns |-> <<>>]
  /\ reads = [c \in Conns |-> 0]
  /\ writes = [c \in Conns |-> 0]
  /\ last = [c \in Conns |-> NoFrame]
  /\ rerr = [c \in Conns |-> "nil"]
  /\ during = [c \in Conns |-> FALSE]

\* Handlers whose lifecycle process is started and not yet waited for.
Running == {c \in Conns : pc[c] = "exec"}

Init ==
  /\ daemon = "init"
  /\ pc = [c \in Conns |-> "none"]
  /\ knownActions = [c \in Conns |-> <<>>]
  /\ command = [c \in Conns |-> NilCmd]
  /\ status = [c \in Conns |-> 0]
  /\ config = [c \in Conns |-> S_empty]
  /\ broken = [c \in Conns |-> FALSE]
  /\ out = [c \in Conns |-> <<>>]
  /\ reads = [c \in Conns |-> 0]
  /\ writes = [c \in Conns |-> 0]
  /\ last = [c \in Conns |-> NoFrame]
  /\ rerr = [c \in Conns |-> "nil"]
  /\ during = [c \in Conns |-> FALSE]
  /\ CliOff
  /\ CodecOff
  /\ AcctOff

\* ---------------------------------------------------------------- listener
\* net.Listen succeeds and main enters the accept loop.
BindOk ==
  /\ UNCHANGED <<cliVars, codecVars, acctVars>>
  /\ daemon = "init"
  /\ daemon' = "running"
  /\ UNCHANGED <<pc, knownActions, command, status, config, broken, out,
                 reads, writes, last, rerr, during>>

\* net.Listen fails: log and os.Exit(1).
BindFail ==
  /\ UNCHANGED <<cliVars, codecVars, acctVars>>
  /\ daemon = "init"
  /\ daemon' = "exited"
  /\ UNCHANGED <<pc, knownActions, command, status, config, broken, out,
                 reads, writes, last, rerr, during>>

\* listener.Accept returns a connection: go handleRequest(conn).
Accept(c) ==
  /\ UNCHANGED <<cliVars, codecVars, acctVars>>
  /\ daemon = "running"
  /\ pc[c] = "none"
  /\ pc' = [pc EXCEPT ![c] = "read"]
  /\ UNCHANGED <<daemon, knownActions, command, status, config, broken, out,
                 reads, writes, last, rerr, during>>

\* listener.Accept returns an error: it is logged and the loop continues.
AcceptError ==
  /\ UNCHANGED <<cliVars, codecVars, acctVars>>
  /\ daemon = "running"
  /\ UNCHANGED <<daemon, pc, knownActions, command, status, config, broken,
                 out, reads, writes, last, rerr, during>>

\* ----------------------------------------------------------------- handler
IsQuitNever(content) == FALSE

\* content == QUIT_SIGN
IsQuit(content) == content = QUIT_SIGN

MatchesNoLen(known, request) == Contains(Join(known), request[1])

\* len(request) > 1 && strings.Contains(strings.Join(knownActions, ""), action)
Matches(known, request) ==
  Len(request) > 1 /\ Contains(Join(known), request[1])

\* The command object the matching branch leaves in `command`.
SelectCmd(known, request, old) ==
  IF request[1] = known[1] THEN NewCmd(S_up, request[2])
  ELSE IF request[1] = known[2] THEN NewCmd(S_down, request[2])
  ELSE old

\* An unrecovered panic in the handler goroutine: the deferred conn.Close()
\* runs and the Go runtime then terminates the whole process.
Panic(c) ==
  /\ pc' = [pc EXCEPT ![c] = "panic"]
  /\ daemon' = "panicked"

ExecuteStartError(c, cmd, startOk) ==
  IF cmd.state \in {"fresh", "failed"} /\ startOk
    THEN /\ command' = [command EXCEPT ![c] = [cmd EXCEPT !.state = "running"]]
         /\ pc' = [pc EXCEPT ![c] = "exec"]
         /\ UNCHANGED <<status, daemon>>
    ELSE /\ command' = [command EXCEPT ![c] =
                          IF cmd.state = "fresh" THEN [cmd EXCEPT !.state = "failed"]
                                                 ELSE cmd]
         /\ status' = [status EXCEPT ![c] = -1]
         /\ pc' = [pc EXCEPT ![c] = "write"]
         /\ UNCHANGED daemon

\* execute(command) up to the point where it blocks in command.Wait(), or
\* returns 0 because nothing was started.  A command that already ran cannot
\* be started again and Wait fails at once; Start of a fresh command, or of
\* one whose earlier Start failed, may succeed or fail.
ExecuteStart(c, cmd, startOk) ==
  IF cmd.state \in {"fresh", "failed"} /\ startOk
    THEN /\ command' = [command EXCEPT ![c] = [cmd EXCEPT !.state = "running"]]
         /\ pc' = [pc EXCEPT ![c] = "exec"]
         /\ UNCHANGED <<status, daemon>>
    ELSE /\ command' = [command EXCEPT ![c] =
                          IF cmd.state = "fresh" THEN [cmd EXCEPT !.state = "failed"]
                                                 ELSE cmd]
         /\ status' = [status EXCEPT ![c] = 0]
         /\ pc' = [pc EXCEPT ![c] = "write"]
         /\ UNCHANGED daemon

\* One iteration of handleRequest's loop from Read up to the point where the
\* goroutine blocks (in Wait, in `wg show`, in Write) or ends.
ReadFrame(c, content, err, startOk) ==
  /\ UNCHANGED <<cliVars, codecVars, acctVars>>
  /\ daemon = "running"
  /\ pc[c] = "read"
  /\ reads[c] < MaxFrames
  /\ broken[c] => err = "io"
  /\ err = "decode" => content \in ErrContents
  /\ err = "io" => content = P_empty
  /\ reads' = [reads EXCEPT ![c] = @ + 1]
  /\ last' = [last EXCEPT ![c] = content]
  /\ rerr' = [rerr EXCEPT ![c] = err]
  /\ broken' = [broken EXCEPT ![c] = @ \/ err = "io"]
  /\ during' = [during EXCEPT ![c] =
                  Fields(content) = <<S_status>> /\ (Running \ {c}) # {}]
  /\ UNCHANGED <<out, writes>>
  /\ IF IsQuit(content)
       THEN /\ pc' = [pc EXCEPT ![c] = "closed"]
            /\ UNCHANGED <<daemon, knownActions, command, status, config>>
       ELSE LET known == knownActions[c] \o <<S_connect, S_disconnect>>
                request == Fields(content)
            IN /\ knownActions' = [knownActions EXCEPT ![c] = known]
               /\ IF Len(request) = 0
                    THEN \* request[0]: index out of range
                         /\ Panic(c)
                         /\ UNCHANGED <<command, status, config>>
                    ELSE IF Matches(known, request)
                      THEN IF Len(request) < 2
                             THEN \* request[1]: index out of range
                                  /\ Panic(c)
                                  /\ UNCHANGED <<command, status, config>>
                             ELSE LET cmd == SelectCmd(known, request, command[c])
                                  IN /\ config' = [config EXCEPT ![c] = request[2]]
                                     /\ IF cmd.state = "nil"
                                          THEN \* command.String() on a nil *exec.Cmd
                                               /\ Panic(c)
                                               /\ UNCHANGED <<command, status>>
                                          ELSE ExecuteStart(c, cmd, startOk)
                      ELSE IF request[1] = S_status
                        THEN /\ pc' = [pc EXCEPT ![c] = "probe"]
                             /\ UNCHANGED <<daemon, command, status, config>>
                        ELSE /\ status' = [status EXCEPT ![c] = -1]
                             /\ pc' = [pc EXCEPT ![c] = "write"]
                             /\ UNCHANGED <<daemon, command, config>>

ProcExitNoReply(c, code) ==
  /\ UNCHANGED <<cliVars, codecVars, acctVars>>
  /\ daemon = "running"
  /\ pc[c] = "exec"
  /\ command' = [command EXCEPT ![c].state = "done"]
  /\ status' = [status EXCEPT ![c] = code]
  /\ pc' = [pc EXCEPT ![c] = "read"]
  /\ UNCHANGED <<daemon, knownActions, config, broken, out, reads, writes,
                 last, rerr, during>>

\* command.Wait() returns in execute: the exit status becomes the status.
ProcExit(c, code) ==
  /\ UNCHANGED <<cliVars, codecVars, acctVars>>
  /\ daemon = "running"
  /\ pc[c] = "exec"
  /\ command' = [command EXCEPT ![c].state = "done"]
  /\ status' = [status EXCEPT ![c] = code]
  /\ pc' = [pc EXCEPT ![c] = "write"]
  /\ UNCHANGED <<daemon, knownActions, config, broken, out, reads, writes,
                 last, rerr, during>>

\* isActiveWireGuard: 1 when `wg show` printed something, 0 otherwise.
ProbeResult(outcome) == IF outcome \in {"output", "error+output"} THEN 1 ELSE 0

ProbeDoneSerialized(c, outcome) ==
  /\ UNCHANGED <<cliVars, codecVars, acctVars>>
  /\ daemon = "running"
  /\ pc[c] = "probe"
  /\ Running = {}
  /\ status' = [status EXCEPT ![c] = ProbeResult(outcome)]
  /\ pc' = [pc EXCEPT ![c] = "write"]
  /\ UNCHANGED <<daemon, knownActions, command, config, broken, out, reads,
                 writes, last, rerr, during>>

\* Variant: answering the query also starts the handler's command.
ProbeDoneMutating(c, outcome) ==
  /\ UNCHANGED <<cliVars, codecVars, acctVars>>
  /\ daemon = "running"
  /\ pc[c] = "probe"
  /\ status' = [status EXCEPT ![c] = ProbeResult(outcome)]
  /\ command' = [command EXCEPT ![c].state = "running"]
  /\ pc' = [pc EXCEPT ![c] = "write"]
  /\ UNCHANGED <<daemon, knownActions, config, broken, out, reads,
                 writes, last, rerr, during>>

\* isActiveWireGuard returns to the handler.
ProbeDone(c, outcome) ==
  /\ UNCHANGED <<cliVars, codecVars, acctVars>>
  /\ daemon = "running"
  /\ pc[c] = "probe"
  /\ status' = [status EXCEPT ![c] = ProbeResult(outcome)]
  /\ pc' = [pc EXCEPT ![c] = "write"]
  /\ UNCHANGED <<daemon, knownActions, command, config, broken, out, reads,
                 writes, last, rerr, during>>

\* Write(conn, response): a failure is logged and the loop goes on.
WriteResponse(c, ok) ==
  /\ UNCHANGED <<cliVars, codecVars, acctVars>>
  /\ daemon = "running"
  /\ pc[c] = "write"
  /\ broken[c] => ~ok
  /\ out' = [out EXCEPT ![c] = Response(status[c])]
  /\ writes' = [writes EXCEPT ![c] = @ + 1]
  /\ broken' = [broken EXCEPT ![c] = @ \/ ~ok]
  /\ pc' = [pc EXCEPT ![c] = "read"]
  /\ UNCHANGED <<daemon, knownActions, command, status, config, reads, last,
                 rerr, during>>

\* ------------------------------------------------------------ specification
Next ==
  \/ BindOk
  \/ BindFail
  \/ \E c \in Conns : Accept(c)
  \/ AcceptError
  \/ \E c \in Conns, content \in Payloads, err \in ReadErrs, startOk \in BOOLEAN :
       ReadFrame(c, content, err, startOk)
  \/ \E c \in Conns, code \in ExitCodes : ProcExit(c, code)
  \/ \E c \in Conns, outcome \in ProbeOutcomes : ProbeDone(c, outcome)
  \/ \E c \in Conns, ok \in BOOLEAN : WriteResponse(c, ok)

Spec == Init /\ [][Next]_vars

TypeOK ==
  /\ daemon \in {"off", "init", "running", "exited", "panicked"}
  /\ \A c \in Conns :
       /\ pc[c] \in {"none", "read", "exec", "probe", "write", "closed", "panic"}
       /\ reads[c] \in 0..MaxFrames
       /\ writes[c] \in 0..MaxFrames
       /\ status[c] \in ExitCodes \cup {0, 1, -1}

\* ===================================================================== CLI
\* One run of `state up` / `state down` of src/src/main.go.  Times are in
\* seconds; a bundle is its identifier; a location is its identifier.
B_freemium == "com.forestvpn.freemium"
B_premium == "com.forestvpn.premium"
B_other == "com.forestvpn.adfree"
Bundles == {B_freemium, B_premium, B_other}

\* "b134d679-8697-4dc6-b629-c4c189392fca"
Falkenstein ==
  <<"b","1","3","4","d","6","7","9","-","8","6","9","7","-","4","d","c","6","-">>
  \o <<"b","6","2","9","-","c","4","c","1","8","9","3","9","2","f","c","a">>
\* "7fc5b17c-eddf-413f-8b37-9d36eb5e33ec"
Helsinki ==
  <<"7","f","c","5","b","1","7","c","-","e","d","d","f","-","4","1","3","f","-">>
  \o <<"8","b","3","7","-","9","d","3","6","e","b","5","e","3","3","e","c">>
\* The identifier of a location other than these two.
OtherLocation ==
  <<"4","f","1","a","d","4","a","9","-","0","0","0","0","-","4","0","0","0","-">>
  \o <<"8","0","0","0","-","0","0","0","0","0","0","0","0","0","0","a","1">>
Locations == {Falkenstein, Helsinki, <<>>, OtherLocation}

\* Values of exp.Sub(now) the billing record and the clock can give.
Lefts ==
  { -3600, -1, 0, 180, 299, 300, 2 * 86400, 3 * 86400 - 1, 3 * 86400,
    3 * 86400 + 1, 30 * 86400 }

\* Lines the CLI prints.
M_alreadyUp == "State is already up and running"
M_alreadyDown == "State is already down"
M_unavailable == "The location you were using is now unavailable, as your paid subscription has ended."
M_sessionOver == "Your 30-minute session is over."
M_goPremium == "You can keep using ForestVPN once you watch an ad in our mobile app, or simply go Premium at https://forestvpn.com/checkout/."
M_fiveMinutes == "You currently have less than 5 minutes of free trial left."
M_threeDays == "Your premium subscription will end in less than 3 days."
M_connected == "Connected to"
M_disconnected == "Disconnected"

\* Errors an Action can return.
E_afterUp == <<"u","n","e","x","p","e","c","t","e","d"," ","e","r","r","o","r",":"," ","s","t","a","t","e",".","s","t","a","t","u","s"," ","i","s"," ","f","a","l","s","e"," ","a","f","t","e","r"," ","s","t","a","t","e"," ","i","s"," ","u","p">>
E_afterDown == <<"u","n","e","x","p","e","c","t","e","d"," ","e","r","r","o","r",":"," ","s","t","a","t","e",".","s","t","a","t","u","s"," ","i","s"," ","t","r","u","e"," ","a","f","t","e","r"," ","s","t","a","t","e"," ","i","s"," ","d","o","w","n">>
ExtErrs == {<<"E","O","F">>, <<"c","o","n","n","e","c","t","i","o","n"," ","r","e","f","u","s","e","d">>}

\* Conversion of a float to an integer in Go: truncation toward zero.
TruncDiv(a, b) == IF a >= 0 THEN a \div b ELSE -((-a) \div b)

\* int(left.Minutes())
Minutes(d) == TruncDiv(d, 60)

\* int64(left.Hours() / 24)
Days(d) == TruncDiv(d, 86400)

\* left.Hours() == 0
HoursIsZero(d) == d = 0

\* actions.IsPremiumLocation
IsPremiumLocation(l) == l \notin {Helsinki, Falkenstein}

ExpiredWithGrace(d) == d + 86400 < 0

\* now.After(exp)
Expired(d) == d < 0

FreemiumWarnUnderOne(b, d) == b = B_freemium /\ Minutes(d) < 1

\* bid == "com.forestvpn.freemium" && int(left.Minutes()) < 5
FreemiumWarn(b, d) == b = B_freemium /\ Minutes(d) < 5

WarnDaysUnderTwo(b, d) ==
  (Days(d) = 3 /\ HoursIsZero(d)) \/ (Days(d) < 2 /\ b = B_premium)

WarnDaysAnyBundle(b, d) ==
  (Days(d) = 3 /\ HoursIsZero(d)) \/ Days(d) < 3

\* days == 3 && left.Hours() == 0 || days < 3 && bid == "com.forestvpn.premium"
WarnDays(b, d) ==
  (Days(d) = 3 /\ HoursIsZero(d)) \/ (Days(d) < 3 /\ b = B_premium)

\* The entitlement checks of `state up`: whether the run is denied
\* (os.Exit(1)) and the lines printed.
Gate(b, d, l) ==
  IF Expired(d)
    THEN IF IsPremiumLocation(l) /\ b = B_premium
           THEN [deny |-> TRUE, lines |-> <<M_unavailable, M_goPremium>>]
           ELSE [deny |-> TRUE, lines |-> <<M_sessionOver, M_goPremium>>]
    ELSE IF FreemiumWarn(b, d) THEN [deny |-> FALSE, lines |-> <<M_fiveMinutes>>]
    ELSE IF WarnDays(b, d) THEN [deny |-> FALSE, lines |-> <<M_threeDays>>]
    ELSE [deny |-> FALSE, lines |-> <<>>]

LowerLetters ==
  <<"a","b","c","d","e","f","g","h","i","j","k","l","m",
    "n","o","p","q","r","s","t","u","v","w","x","y","z">>
UpperLetters ==
  <<"A","B","C","D","E","F","G","H","I","J","K","L","M",
    "N","O","P","Q","R","S","T","U","V","W","X","Y","Z">>

ToUpper(ch) ==
  IF \E i \in 1..Len(LowerLetters) : LowerLetters[i] = ch
    THEN UpperLetters[CHOOSE i \in 1..Len(LowerLetters) : LowerLetters[i] = ch]
    ELSE ch

ToLower(ch) ==
  IF \E i \in 1..Len(UpperLetters) : UpperLetters[i] = ch
    THEN LowerLetters[CHOOSE i \in 1..Len(UpperLetters) : UpperLetters[i] = ch]
    ELSE ch

\* cases.Title(language.AmericanEnglish).String(w) for a single word
Title(w) ==
  [i \in 1..Len(w) |-> IF i = 1 THEN ToUpper(w[i]) ELSE ToLower(w[i])]

\* Index of the first space of s, or Len(s) + 1.
FirstSpace(s) ==
  IF \E i \in 1..Len(s) : s[i] = " "
    THEN CHOOSE i \in 1..Len(s) : s[i] = " " /\ \A j \in 1..(i - 1) : s[j] # " "
    ELSE Len(s) + 1

\* msg := strings.Split(err.Error(), " "); msg[0] = caser.String(msg[0]);
\* strings.Join(msg, " ")
TitleFirst(e) ==
  Title(SubSeq(e, 1, FirstSpace(e) - 1)) \o SubSeq(e, FirstSpace(e), Len(e))

\* The Action returns err: app.Run returns it, main prints it and returns.
ReturnErr(e) ==
  /\ retErr' = e
  /\ errOut' = TitleFirst(e)
  /\ exit' = 0
  /\ cpc' = "exit"

\* Variant: the line is printed and the process ends with status 0.
ExitOneZero(line) ==
  /\ printed' = Append(printed, line)
  /\ exit' = 0
  /\ cpc' = "exit"
  /\ UNCHANGED <<retErr, errOut>>

\* fmt.Println(line); os.Exit(1)
ExitOne(line) ==
  /\ printed' = Append(printed, line)
  /\ exit' = 1
  /\ cpc' = "exit"
  /\ UNCHANGED <<retErr, errOut>>

\* profile.SignIn(utils.ApiHost)
CliSignIn(ok, e) ==
  /\ cpc = "signin"
  /\ UNCHANGED <<daemonVars, codecVars, acctVars>>
  /\ UNCHANGED <<sub, bid, left, loc, gate, probe, reply, sent>>
  /\ IF ok THEN /\ cpc' = "status"
                /\ UNCHANGED <<printed, retErr, errOut, exit>>
           ELSE ReturnErr(e) /\ UNCHANGED printed

\* The first state.GetStatus() of `state up` / `state down`.
CliStatus(outcome) ==
  /\ cpc = "status"
  /\ UNCHANGED <<daemonVars, codecVars, acctVars>>
  /\ UNCHANGED <<sub, bid, left, loc, gate>>
  /\ probe' = outcome
  /\ reply' = ProbeResult(outcome)
  /\ sent' = Append(sent, S_status)
  /\ IF sub = "up"
       THEN IF ProbeResult(outcome) = 1
              THEN ExitOne(M_alreadyUp)
              ELSE /\ cpc' = "fetch"
                   /\ UNCHANGED <<printed, retErr, errOut, exit>>
       ELSE IF ProbeResult(outcome) = 1
              THEN /\ cpc' = "setdown"
                   /\ UNCHANGED <<printed, retErr, errOut, exit>>
              ELSE ExitOne(M_alreadyDown)

\* GetAuthClientWrapper, GetUnexpiredOrMostRecentBillingFeature, LoadDevice
CliFetch(ok, e) ==
  /\ cpc = "fetch"
  /\ UNCHANGED <<daemonVars, codecVars, acctVars>>
  /\ UNCHANGED <<sub, bid, left, loc, gate, probe, reply, sent>>
  /\ IF ok THEN /\ cpc' = "gate"
                /\ UNCHANGED <<printed, retErr, errOut, exit>>
           ELSE ReturnErr(e) /\ UNCHANGED printed

\* The entitlement checks on the billing record.
CliGate ==
  /\ cpc = "gate"
  /\ UNCHANGED <<daemonVars, codecVars, acctVars>>
  /\ UNCHANGED <<sub, bid, left, loc, probe, reply, sent, retErr, errOut>>
  /\ LET g == Gate(bid, left, loc)
     IN /\ printed' = printed \o g.lines
        /\ IF g.deny
             THEN gate' = "deny" /\ exit' = 1 /\ cpc' = "exit"
             ELSE gate' = "allow" /\ cpc' = "setup" /\ UNCHANGED exit

\* state.SetUp / state.SetDown: the bring-up or bring-down command goes to
\* the daemon; the call may fail before or after sending it.
CliSet(outcome, e) ==
  /\ cpc \in {"setup", "setdown"}
  /\ outcome \in {"ok", "failed", "unsent"}
  /\ UNCHANGED <<daemonVars, codecVars, acctVars>>
  /\ UNCHANGED <<sub, bid, left, loc, gate, probe, reply>>
  /\ sent' = IF outcome = "unsent" THEN sent
             ELSE Append(sent, IF cpc = "setup" THEN S_connect ELSE S_disconnect)
  /\ IF outcome = "ok"
       THEN /\ cpc' = "confirm"
            /\ UNCHANGED <<printed, retErr, errOut, exit>>
       ELSE ReturnErr(e) /\ UNCHANGED printed

\* Variant: the Action reports success whatever the second query returned.
CliConfirmTrusting(outcome) ==
  /\ cpc = "confirm"
  /\ UNCHANGED <<daemonVars, codecVars, acctVars>>
  /\ UNCHANGED <<sub, bid, left, loc, gate>>
  /\ probe' = outcome
  /\ reply' = ProbeResult(outcome)
  /\ sent' = Append(sent, S_status)
  /\ printed' = Append(printed, IF sub = "up" THEN M_connected
                                              ELSE M_disconnected)
  /\ exit' = 0
  /\ cpc' = "exit"
  /\ UNCHANGED <<retErr, errOut>>

\* The state.GetStatus() after SetUp / SetDown and the end of the Action.
CliConfirm(outcome) ==
  /\ cpc = "confirm"
  /\ UNCHANGED <<daemonVars, codecVars, acctVars>>
  /\ UNCHANGED <<sub, bid, left, loc, gate>>
  /\ probe' = outcome
  /\ reply' = ProbeResult(outcome)
  /\ sent' = Append(sent, S_status)
  /\ IF (sub = "up") = (ProbeResult(outcome) = 1)
       THEN /\ printed' = Append(printed, IF sub = "up" THEN M_connected
                                                   ELSE M_disconnected)
            /\ exit' = 0
            /\ cpc' = "exit"
            /\ UNCHANGED <<retErr, errOut>>
       ELSE /\ ReturnErr(IF sub = "up" THEN E_afterUp ELSE E_afterDown)
            /\ UNCHANGED printed

CliInit ==
  /\ DaemonOff
  /\ CodecOff
  /\ AcctOff
  /\ cpc = "signin"
  /\ sub \in {"up", "down"}
  /\ bid \in Bundles
  /\ left \in Lefts
  /\ loc \in Locations
  /\ gate = "none" /\ probe = "none" /\ reply = 0 /\ sent = <<>>
  /\ printed = <<>> /\ retErr = NoErr /\ errOut = <<>> /\ exit = -1

CliNext ==
  \/ \E ok \in BOOLEAN, e \in ExtErrs : CliSignIn(ok, e)
  \/ \E outcome \in ProbeOutcomes : CliStatus(outcome)
  \/ \E ok \in BOOLEAN, e \in ExtErrs : CliFetch(ok, e)
  \/ CliGate
  \/ \E outcome \in {"ok", "failed", "unsent"}, e \in ExtErrs : CliSet(outcome, e)
  \/ \E outcome \in ProbeOutcomes : CliConfirm(outcome)

CliSpec == CliInit /\ [][CliNext]_vars

\* =================================================================== codec
\* One frame through the framing codec: a writer frames a payload (the
\* client a command, the daemon a status), the reader decodes the bytes.
CodecBytes == {0, DELIMITER, 97, 255}

\* Payloads of up to MaxLen bytes.
BytePayloads == UNION {[1..n -> CodecBytes] : n \in 0..MaxLen}

\* Statuses the handler can be asked to frame.
Statuses == (-1)..255

DecodeFailed == <<-1>>

\* The frame of a payload: <payload><DELIMITER>.
Encode(p) == p \o <<DELIMITER>>

\* Read(conn, DELIMITER): the bytes before the first delimiter.
Decode(w) ==
  IF \E i \in 1..Len(w) : w[i] = DELIMITER
    THEN SubSeq(w, 1, (CHOOSE i \in 1..Len(w) :
                         w[i] = DELIMITER /\ \A j \in 1..(i - 1) : w[j] # DELIMITER) - 1)
    ELSE DecodeFailed

\* The client writes a command frame.
CodecEncode ==
  /\ stage = "new"
  /\ payload \in BytePayloads
  /\ wire' = Encode(payload)
  /\ stage' = "encoded"
  /\ UNCHANGED <<payload, decoded, daemonVars, cliVars, acctVars>>

\* The handler writes the response frame of a status.
CodecRespond(st) ==
  /\ stage = "new"
  /\ payload = EncodeRune(st)
  /\ wire' = Response(st)
  /\ stage' = "encoded"
  /\ UNCHANGED <<payload, decoded, daemonVars, cliVars, acctVars>>

\* The peer reads the frame.
CodecDecode ==
  /\ stage = "encoded"
  /\ decoded' = Decode(wire)
  /\ stage' = "decoded"
  /\ UNCHANGED <<payload, wire, daemonVars, cliVars, acctVars>>

CodecInit ==
  /\ DaemonOff
  /\ CliOff
  /\ AcctOff
  /\ stage = "new"
  /\ payload \in BytePayloads \cup {EncodeRune(st) : st \in Statuses}
  /\ wire = <<>>
  /\ decoded = <<>>

CodecNext ==
  \/ CodecEncode
  \/ \E st \in Statuses : CodecRespond(st)
  \/ CodecDecode

CodecSpec == CodecInit /\ [][CodecNext]_vars

\* ======================================================== account commands
\* One run of `location set` (src/src/main.go) or of `login`
\* (src/src/cmd/main.go).  A location is its identifier and its name.
MaxLocs == 2

N_Helsinki == <<"H","e","l","s","i","n","k","i">>
N_Falkenstein == <<"F","a","l","k","e","n","s","t","e","i","n">>
N_Toronto == <<"T","o","r","o","n","t","o">>

\* Locations the service may list.
LocationPool ==
  { [id |-> Helsinki, name |-> N_Helsinki],
    [id |-> Falkenstein, name |-> N_Falkenstein],
    [id |-> OtherLocation, name |-> N_Toronto] }

LocationLists == UNION {[1..n -> LocationPool] : n \in 0..MaxLocs}

\* strings.EqualFold on ASCII strings
EqualFold(a, b) ==
  Len(a) = Len(b) /\ \A i \in 1..Len(a) : ToLower(a[i]) = ToLower(b[i])

HexChars ==
  {"0","1","2","3","4","5","6","7","8","9",
    "a","b","c","d","e","f","A","B","C","D","E","F"}

IsHex(h) == \A i \in 1..Len(h) : h[i] \in HexChars

\* uuid.Parse: the forms with a "urn:uuid:" prefix or in braces are reduced
\* to the 36-character form.
Unwrap(a) ==
  IF Len(a) = 45 /\ EqualFold(SubSeq(a, 1, 9), <<"u","r","n",":","u","u","i","d",":">>)
    THEN SubSeq(a, 10, 45)
  ELSE IF Len(a) = 38 THEN SubSeq(a, 2, 37)
  ELSE a

\* uuid.Parse returns no error.
ParseOk(a) ==
  LET u == Unwrap(a)
  IN \/ Len(u) = 32 /\ IsHex(u)
     \/ /\ Len(u) = 36
        /\ \A i \in {9, 14, 19, 24} : u[i] = "-"
        /\ \A i \in (1..36) \ {9, 14, 19, 24} : u[i] \in HexChars

\* id.String() of the parsed UUID: lower case, 8-4-4-4-12.
UUIDString(a) ==
  LET u == Unwrap(a)
      h == SelectSeq(u, LAMBDA ch : ch # "-")
      w == SubSeq(h, 1, 8) \o <<"-">> \o SubSeq(h, 9, 12) \o <<"-">>
             \o SubSeq(h, 13, 16) \o <<"-">> \o SubSeq(h, 17, 20) \o <<"-">>
             \o SubSeq(h, 21, 32)
  IN [i \in 1..36 |-> ToLower(w[i])]

\* Arguments of `location set`.
A_helsinki == <<"h","e","l","s","i","n","k","i">>
A_unknown == <<"o","z">>
A_upper == [i \in 1..36 |-> ToUpper(Falkenstein[i])]
A_hex32 == SelectSeq(Helsinki, LAMBDA ch : ch # "-")
Args == {<<>>, A_helsinki, A_unknown, Helsinki, A_upper, A_hex32, OtherLocation}

\* actions.GetLocationWrappers
GetLocationWrappers(locs) ==
  [i \in 1..Len(locs) |->
     [Location |-> locs[i], Premium |-> IsPremiumLocation(locs[i].id)]]

\* actions.GetWrappedLocations(billingFeature, locations)
GetWrappedLocations(locs) == GetLocationWrappers(locs)

\* The loop over wrappedLocations taken when uuid.Parse failed.
RECURSIVE FindByName(_, _, _)
FindByName(wrapped, i, name) ==
  IF i > Len(wrapped) THEN [found |-> FALSE, location |-> ZeroWrapper]
  ELSE IF EqualFold(wrapped[i].Location.name, name)
    THEN [found |-> TRUE, location |-> wrapped[i]]
  ELSE FindByName(wrapped, i + 1, name)

\* The loop over wrappedLocations taken when uuid.Parse succeeded: it
\* compares the identifier of `location`, not of `loc`, and leaves found
\* false.
RECURSIVE FindByIdOf(_, _, _, _)
FindByIdOf(wrapped, i, cur, idString) ==
  IF i > Len(wrapped) THEN [found |-> FALSE, location |-> cur]
  ELSE IF EqualFold(cur.Location.id, idString)
    THEN [found |-> FALSE, location |-> wrapped[i]]
  ELSE FindByIdOf(wrapped, i + 1, cur, idString)

\* id, err := uuid.Parse(arg) and the search that follows.
FindLocation(wrapped, a) ==
  IF ParseOk(a) THEN FindByIdOf(wrapped, 1, ZeroWrapper, UUIDString(a))
                ELSE FindByName(wrapped, 1, a)

\* The Action returns without a default location set.
AcctEnd(line, e) ==
  /\ apc' = "done"
  /\ aline' = line
  /\ aerr' = e
  /\ UNCHANGED applied

\* `location set` up to the search for the location.
LocationSetFind(signedIn, up, listed) ==
  /\ apc = "start" /\ acmd = "set"
  /\ UNCHANGED <<daemonVars, cliVars, codecVars>>
  /\ UNCHANGED <<acmd, arg, locations, abid, aexpired, premiumUser>>
  /\ IF ~signedIn
       THEN AcctEnd("none", "ext") /\ UNCHANGED <<found, location>>
     ELSE IF up
       THEN AcctEnd("set down first", "nil") /\ UNCHANGED <<found, location>>
     ELSE IF Len(arg) < 1
       THEN AcctEnd("none", "UUID or name required")
            /\ UNCHANGED <<found, location>>
     ELSE IF ~listed
       THEN AcctEnd("none", "ext") /\ UNCHANGED <<found, location>>
     ELSE LET f == FindLocation(GetLocationWrappers(locations), arg)
          IN /\ found' = f.found
             /\ location' = f.location
             /\ IF ~f.found
                  THEN AcctEnd("none", "no such location")
                  ELSE /\ apc' = "apply"
                       /\ UNCHANGED <<applied, aline, aerr>>

\* `location set` from the billing check to the end.
LocationSetApply(billed, updated) ==
  /\ apc = "apply" /\ acmd = "set"
  /\ UNCHANGED <<daemonVars, cliVars, codecVars>>
  /\ UNCHANGED <<acmd, arg, locations, abid, aexpired, premiumUser, found,
                 location>>
  /\ IF ~billed THEN AcctEnd("none", "ext")
     ELSE IF (location.Premium /\ abid = B_freemium) \/ aexpired
       THEN AcctEnd("unavailable", "nil")
     ELSE IF ~updated THEN AcctEnd("none", "ext")
     ELSE /\ applied' = location.Location.id
          /\ apc' = "done"
          /\ aline' = "Default location is set"
          /\ aerr' = "nil"

\* The locations the new user's default is drawn among.
LocationSet(wrapped, premium) ==
  IF premium THEN wrapped
             ELSE SelectSeq(wrapped, LAMBDA w : ~w.Premium)

\* `login` up to the choice of a default location for a new user.
LoginStart(hasToken, newUser, loggedIn, tokenLoaded, features, listed) ==
  /\ apc = "start" /\ acmd = "login"
  /\ features \in {"one", "none", "error"}
  /\ UNCHANGED <<daemonVars, cliVars, codecVars>>
  /\ UNCHANGED <<acmd, arg, locations, abid, aexpired, premiumUser, found,
                 location>>
  /\ IF hasToken THEN AcctEnd("Logged in", "nil")
     ELSE IF ~loggedIn THEN AcctEnd("none", "ext")
     ELSE IF ~newUser
       THEN apc' = "save" /\ UNCHANGED <<applied, aline, aerr>>
     ELSE IF ~tokenLoaded \/ features = "error" THEN AcctEnd("none", "ext")
     ELSE IF features = "none"
       THEN \* resp[0]: index out of range
            /\ apc' = "panic"
            /\ aerr' = "index out of range"
            /\ UNCHANGED <<applied, aline>>
     ELSE IF ~listed THEN AcctEnd("none", "ext")
     ELSE apc' = "pick" /\ UNCHANGED <<applied, aline, aerr>>

\* randomIndex = rand.Intn(len(locationSet));
\* location = wrappedLocations[randomIndex]
LoginPick(randomIndex) ==
  /\ apc = "pick" /\ acmd = "login"
  /\ UNCHANGED <<daemonVars, cliVars, codecVars>>
  /\ UNCHANGED <<acmd, arg, locations, abid, aexpired, premiumUser, found,
                 applied, aline>>
  /\ LET wrapped == GetWrappedLocations(locations)
         n == Len(LocationSet(wrapped, premiumUser))
     IN IF n <= 0
          THEN \* rand.Intn panics when its argument is not positive
               /\ randomIndex = 0
               /\ apc' = "panic"
               /\ aerr' = "invalid argument to Intn"
               /\ UNCHANGED location
          ELSE /\ randomIndex \in 0..(n - 1)
               /\ location' = wrapped[randomIndex + 1]
               /\ apc' = "setloc"
               /\ UNCHANGED aerr

\* apiClient.SetLocation(billingFeature, location, includeRoutes)
LoginSetLocation(ok) ==
  /\ apc = "setloc" /\ acmd = "login"
  /\ UNCHANGED <<daemonVars, cliVars, codecVars>>
  /\ UNCHANGED <<acmd, arg, locations, abid, aexpired, premiumUser, found,
                 location>>
  /\ IF ok THEN /\ applied' = location.Location.id
                /\ apc' = "save"
                /\ UNCHANGED <<aline, aerr>>
           ELSE AcctEnd("none", "ext")

\* The session file is written and the run ends.
LoginSave(dumped, hasToken) ==
  /\ apc = "save" /\ acmd = "login"
  /\ UNCHANGED <<daemonVars, cliVars, codecVars>>
  /\ UNCHANGED <<acmd, arg, locations, abid, aexpired, premiumUser, found,
                 location>>
  /\ IF ~dumped THEN AcctEnd("none", "ext")
     ELSE AcctEnd(IF hasToken THEN "Logged in" ELSE "none", "nil")

AcctInit ==
  /\ DaemonOff
  /\ CliOff
  /\ CodecOff
  /\ apc = "start"
  /\ locations \in LocationLists
  /\ \/ /\ acmd = "set"
        /\ arg \in Args
        /\ abid \in Bundles
        /\ aexpired \in BOOLEAN
        /\ premiumUser = FALSE
     \/ /\ acmd = "login"
        /\ arg = <<>>
        /\ abid = ""
        /\ aexpired = FALSE
        /\ premiumUser \in BOOLEAN
  /\ found = FALSE /\ location = ZeroWrapper /\ applied = NotApplied
  /\ aline = "none" /\ aerr = "nil"

AcctNext ==
  \/ \E signedIn, up, listed \in BOOLEAN : LocationSetFind(signedIn, up, listed)
  \/ \E billed, updated \in BOOLEAN : LocationSetApply(billed, updated)
  \/ \E hasToken, newUser, loggedIn, tokenLoaded, listed \in BOOLEAN,
        features \in {"one", "none", "error"} :
       LoginStart(hasToken, newUser, loggedIn, tokenLoaded, features, listed)
  \/ \E randomIndex \in 0..MaxLocs : LoginPick(randomIndex)
  \/ \E ok \in BOOLEAN : LoginSetLocation(ok)
  \/ \E dumped, hasToken \in BOOLEAN : LoginSave(dumped, hasToken)

AcctSpec == AcctInit /\ [][AcctNext]_vars

\* ------------------------------------------------------------------ claims
\* A frame the protocol defines: connect/disconnect with an identifier, status.
ValidCommand(content) ==
  LET r == Fields(content)
  IN \/ Len(r) = 2 /\ r[1] \in {S_connect, S_disconnect}
     \/ r = <<S_status>>

\* A frame whose verb is none of connect, disconnect, status.
UnknownVerb(content) ==
  LET r == Fields(content)
  IN /\ content # QUIT_SIGN
     /\ Len(r) >= 1
     /\ r[1] \notin {S_connect, S_disconnect, S_status}

\* connect or disconnect without a configuration identifier.
BareMutation(content) == Fields(content) \in {<<S_connect>>, <<S_disconnect>>}

\* C1: at most one lifecycle process (wg-quick up/down) is started and not
\* yet waited for at any instant, over all connections.
C1_MutualExclusion == Cardinality(Running) <= 1

\* C2: requests and responses alternate on every connection: when the
\* handler is about to read, every frame it read has had exactly one
\* response written; while it serves a frame exactly that frame's response
\* is outstanding; and a valid command never ends the handler.
C2_Alternation ==
  \A c \in Conns :
    /\ pc[c] \in {"none", "read"} => writes[c] = reads[c]
    /\ pc[c] \in {"exec", "probe", "write"} => writes[c] = reads[c] - 1
    /\ writes[c] <= reads[c]
    /\ reads[c] > 0 /\ ValidCommand(last[c]) =>
         pc[c] \in {"exec", "probe", "write", "read"}

C2_Witness ==
  \E c \in Conns :
    /\ pc[c] = "read" /\ reads[c] = 2 /\ writes[c] = 2
    /\ ValidCommand(last[c]) /\ rerr[c] = "nil"
    /\ out[c] = Response(status[c])

\* C3: while another connection's lifecycle process is running, a status
\* command is never held back: the handler can take the status frame and
\* hand it to the prober, the prober can return, and the response can be
\* written, all without the running process finishing.
C3_StatusNotBlocked ==
  \A c \in Conns :
    (daemon = "running" /\ (Running \ {c}) # {}) =>
      /\ (pc[c] = "read" /\ reads[c] < MaxFrames /\ ~broken[c]) =>
           ENABLED (ReadFrame(c, P_status, "nil", TRUE) /\ pc'[c] = "probe")
      /\ pc[c] = "probe" =>
           \A o \in ProbeOutcomes : ENABLED ProbeDone(c, o)
      /\ (pc[c] = "write" /\ last[c] = P_status) =>
           ENABLED WriteResponse(c, ~broken[c])

C3_Witness ==
  \E c, d \in Conns :
    /\ c # d
    /\ pc[d] = "exec" /\ reads[d] = 1
    /\ last[c] = P_status /\ during[c]
    /\ pc[c] = "read" /\ writes[c] = reads[c]
    /\ out[c] \in {Response(0), Response(1)}

\* C4: once the handler has read the disconnect sentinel the connection is
\* closed, the handler has ended, and no response was written for the
\* sentinel or after it.
C4_QuitCloses ==
  \A c \in Conns :
    last[c] = QUIT_SIGN => pc[c] = "closed" /\ writes[c] = reads[c] - 1

C4_Witness ==
  \E c \in Conns :
    /\ last[c] = QUIT_SIGN /\ pc[c] = "closed"
    /\ reads[c] = 2 /\ writes[c] = 1 /\ out[c] # <<>>

\* C5: a frame with an unknown verb is answered with ERROR (-1), starts no
\* external process and leaves the handler serving the connection.
C5_UnknownVerbError ==
  \A c \in Conns :
    (reads[c] > 0 /\ UnknownVerb(last[c])) =>
      /\ pc[c] \in {"write", "read"}
      /\ pc[c] = "write" => status[c] = -1
      /\ pc[c] = "read" => out[c] = Response(-1)

\* C6: connect or disconnect without an identifier never reaches the
\* Process Runner, is answered with ERROR (-1), and the handler keeps
\* serving the connection.
C6_NoConfigIsError ==
  \A c \in Conns :
    (reads[c] > 0 /\ BareMutation(last[c])) =>
      /\ pc[c] \in {"write", "read"}
      /\ command[c].state # "running"
      /\ pc[c] = "write" => status[c] = -1
      /\ pc[c] = "read" => out[c] = Response(-1)

C6_Witness ==
  \E c \in Conns :
    /\ reads[c] > 0 /\ BareMutation(last[c])
    /\ pc[c] = "read" /\ writes[c] = reads[c]
    /\ out[c] = Response(-1)
    /\ daemon = "running"

\* C7: after a successful bind the daemon process never terminates,
\* whatever frames and I/O failures its connections see.
C7_DaemonSurvives == daemon \in {"init", "running", "exited"}

\* C8: after a Read that failed with a decode error the handler is back at
\* reading: nothing was dispatched, no process runs, the connection is open.
C8_DecodeErrorSkipped ==
  \A c \in Conns : rerr[c] = "decode" => pc[c] = "read"

\* C9: once a read or write on the connection has failed with an I/O error
\* the handler has closed the connection and ended.
C9_ClosedOnIOError ==
  \A c \in Conns : broken[c] => pc[c] \in {"closed", "panic"}

\* C10: every response frame is one status byte out of {0, 1, 255} followed
\* by the delimiter.
C10_StatusByte ==
  \A c \in Conns :
    out[c] # <<>> =>
      /\ Len(out[c]) = 2
      /\ out[c][1] \in {0, 1, 255}
      /\ out[c][2] = DELIMITER

\* connect or disconnect with a configuration identifier.
LifecycleCmd(content) ==
  LET r == Fields(content)
  IN Len(r) = 2 /\ r[1] \in {S_connect, S_disconnect}

\* C11: the response to a connect/disconnect whose lifecycle tool exited
\* with code n >= 0 is the single byte n mod 256 followed by the delimiter
\* (exit code 0 gives status byte 0).
C11_ExitCodeByte ==
  \A c \in Conns :
    ( /\ reads[c] > 0 /\ LifecycleCmd(last[c])
      /\ command[c].state = "done" /\ status[c] >= 0
      /\ pc[c] = "read" /\ writes[c] = reads[c] ) =>
        out[c] = <<status[c] % 256, DELIMITER>>

\* C12: when the lifecycle tool of a connect/disconnect could not be
\* started, the runner yields status 0 and the handler writes one response
\* carrying it.
C12_StartFailureIsZero ==
  \A c \in Conns :
    (reads[c] > 0 /\ LifecycleCmd(last[c]) /\ command[c].state = "failed") =>
      /\ pc[c] \in {"write", "read"}
      /\ pc[c] = "write" => status[c] = 0 /\ writes[c] = reads[c] - 1
      /\ pc[c] = "read" => out[c] = Response(0) /\ writes[c] = reads[c]

C12_Witness ==
  \E c \in Conns :
    /\ reads[c] > 0 /\ LifecycleCmd(last[c]) /\ command[c].state = "failed"
    /\ pc[c] = "read" /\ writes[c] = reads[c]
    /\ out[c] = Response(0) /\ rerr[c] = "nil"

\* C21: the daemon exits with status 1 only because the bind failed, before
\* any connection was accepted; once the bind succeeded, the listener can
\* at any later time take an accept error and go on, and can accept every
\* connection not yet accepted, whatever the handlers already started are
\* doing, each accepted connection having one handler of its own.
C21_Listener ==
  /\ daemon = "exited" => \A c \in Conns : pc[c] = "none"
  /\ daemon \notin {"init", "exited"} =>
       /\ ENABLED AcceptError
       /\ \A c \in Conns :
            pc[c] = "none" =>
              ENABLED (Accept(c) /\ pc'[c] = "read"
                       /\ \A d \in Conns \ {c} : pc'[d] = pc[d])

\* A step that dispatches a status frame on connection c.
DispatchesStatus(c) ==
  /\ reads'[c] = reads[c] + 1
  /\ Len(Fields(last'[c])) >= 1
  /\ Fields(last'[c])[1] = S_status

\* C23: dispatching a status frame hands it to the prober and neither
\* builds nor starts a lifecycle command, and the prober's return sets the
\* status to 0 or 1 and neither builds nor starts one: the set of running
\* lifecycle processes and every handler's command are as before.
C23_StatusNeverMutates ==
  [][ \A c \in Conns :
        /\ DispatchesStatus(c) =>
             pc'[c] = "probe" /\ command' = command /\ Running' = Running
        /\ (pc[c] = "probe" /\ pc'[c] # "probe") =>
             /\ pc'[c] = "write" /\ status'[c] \in {0, 1}
             /\ command' = command /\ Running' = Running ]_vars

C23_Witness ==
  \E c \in Conns :
    /\ reads[c] = 2 /\ last[c] = P_status /\ pc[c] = "write"
    /\ status[c] = 1 /\ command[c] = [NewCmd(S_up, <<"a">>) EXCEPT !.state = "done"]

\* C24: a lifecycle process a handler has started was built from the frame
\* it is serving: the verb is connect and the arguments are [up, c], or the
\* verb is disconnect and the arguments are [down, c], c being the frame's
\* identifier.
C24_BuiltFromRequest ==
  \A c \in Conns :
    pc[c] = "exec" =>
      LET r == Fields(last[c])
      IN /\ Len(r) >= 2
         /\ r[1] \in {S_connect, S_disconnect}
         /\ command[c].op = (IF r[1] = S_connect THEN S_up ELSE S_down)
         /\ command[c].cfg = r[2]

\* What the dispatch does with a payload that is the first frame of its
\* connection.
FirstClass(content) ==
  LET r == Fields(content)
      known == <<S_connect, S_disconnect>>
  IN IF IsQuit(content) THEN "quit"
     ELSE IF Len(r) = 0 THEN "panic"
     ELSE IF Matches(known, r)
       THEN IF r[1] \in {S_connect, S_disconnect} THEN "mutating" ELSE "panic"
     ELSE IF r[1] = S_status THEN "status"
     ELSE "error"

\* What the dispatch that has just run on connection c did with its frame.
Class(p, st) ==
  CASE p = "closed" -> "quit"
    [] p = "panic" -> "panic"
    [] p = "exec" -> "mutating"
    [] p = "probe" -> "status"
    [] p = "write" /\ st = -1 -> "error"
    [] OTHER -> "mutating"

\* C25: every frame is dispatched as the same payload is when it is the
\* first frame of a connection.
C25_StatelessDispatch ==
  [][ \A c \in Conns :
        reads'[c] = reads[c] + 1 =>
          Class(pc'[c], status'[c]) = FirstClass(last'[c]) ]_vars

\* C28: a connect/disconnect whose process has terminated and whose
\* response is not written yet is not lost: its handler is at the write of
\* that response, having read no further frame, and the daemon is there to
\* write it.
C28_NoLostCommand ==
  \A c \in Conns :
    (command[c].state = "done" /\ LifecycleCmd(last[c]) /\ writes[c] < reads[c]) =>
      pc[c] = "write" /\ daemon = "running"

\* ---------------------------------------------------------- claims on the CLI
IsWarning(line) == line \in {M_fiveMinutes, M_threeDays}
IsDenial(line) == line \in {M_unavailable, M_sessionOver}

\* Warnings and denial reasons among the lines printed so far.
Warnings == SelectSeq(printed, IsWarning)
Denials == SelectSeq(printed, IsDenial)

\* The bring-up command has been sent to the daemon.
SentConnect == \E i \in 1..Len(sent) : sent[i] = S_connect

\* Rules 3 and 4 of the decision table as the specification words them.
TableRule3(b, d) == b = B_freemium /\ Minutes(d) < 5
TableRule4(b, d) ==
  (Days(d) = 3 /\ d % 86400 = 0) \/ (Days(d) < 3 /\ b = B_premium)

\* C13: the status a query returns is 1 exactly when `wg show` ran without
\* error and printed something, and 0 otherwise.
C13_ProberExact ==
  probe # "none" => /\ reply \in {0, 1}
                    /\ reply = 1 <=> probe = "output"

\* C14: in `state up`, when now is after the expiry no bring-up command is
\* ever sent, and once the entitlement checks ran the run is denied and the
\* process has exited with status 1.
C14_ExpiredDenies ==
  (sub = "up" /\ left < 0) =>
    /\ ~SentConnect
    /\ gate # "none" => gate = "deny" /\ exit = 1 /\ cpc = "exit"
                        /\ Len(Denials) = 1

C14_Witness ==
  /\ sub = "up" /\ left < 0 /\ gate = "deny" /\ exit = 1
  /\ bid = B_freemium /\ Denials = <<M_sessionOver>>

\* C15: the 3-day warning is printed, and the bring-up allowed, exactly when
\* the record is not expired, the freemium 5-minute rule did not match, and
\* either exactly three whole days remain or fewer than three days remain on
\* a premium bundle.
C15_ThreeDayWarning ==
  gate # "none" =>
    ( (gate = "allow" /\ Warnings = <<M_threeDays>>)
      <=> (left >= 0 /\ ~TableRule3(bid, left) /\ TableRule4(bid, left)) )

\* C16 (as claimed): premium with the expiry two days ahead is allowed and
\* no warning is printed.
C16_PremiumTwoDaysSilent ==
  (gate # "none" /\ bid = B_premium /\ left = 2 * 86400) =>
    gate = "allow" /\ Warnings = <<>>

\* C16 (amended): premium with the expiry two days ahead is allowed and the
\* 3-day warning, and only it, is printed.
C16_PremiumTwoDaysWarns ==
  (gate # "none" /\ bid = B_premium /\ left = 2 * 86400) =>
    gate = "allow" /\ Warnings = <<M_threeDays>> /\ Denials = <<>>

C16_Witness ==
  /\ gate = "allow" /\ bid = B_premium /\ left = 2 * 86400
  /\ cpc = "setup" /\ printed = <<M_threeDays>>

\* C17: an unexpired freemium bundle with fewer than 5 minutes left is
\* allowed with the 5-minute warning, and the run goes on to SetUp, which
\* sends the bring-up command.
C17_FreemiumFiveMinutes ==
  (gate # "none" /\ bid = B_freemium /\ left >= 0 /\ left < 5 * 60) =>
    /\ gate = "allow"
    /\ Warnings = <<M_fiveMinutes>>
    /\ Denials = <<>>
    /\ exit # 1
    /\ cpc = "confirm" => SentConnect

C17_Witness ==
  /\ gate = "allow" /\ bid = B_freemium /\ left = 180
  /\ cpc = "confirm" /\ SentConnect /\ Warnings = <<M_fiveMinutes>>

\* C18: the checks give exactly one outcome: a denial with one reason and no
\* warning, or an allowance with at most one warning; and an input that
\* matches none of the rules 1 to 4 is allowed without a warning.
C18_OneOutcome ==
  gate # "none" =>
    /\ gate = "deny" => /\ Warnings = <<>> /\ Len(Denials) = 1
                        /\ exit = 1 /\ ~SentConnect
    /\ gate = "allow" => Len(Warnings) <= 1 /\ Denials = <<>>
    /\ (left >= 0 /\ ~TableRule3(bid, left) /\ ~TableRule4(bid, left)) =>
         gate = "allow" /\ Warnings = <<>>

C18_Witness ==
  /\ gate = "allow" /\ Warnings = <<>> /\ cpc = "setup"
  /\ bid = B_other /\ left = 300

\* C20: when the Action returned an error, the CLI printed its message with
\* the first letter in upper case and the process exit status is not 0.
C20_ErrorExitsNonZero ==
  retErr # NoErr =>
    /\ Len(errOut) = Len(retErr)
    /\ errOut[1] = ToUpper(retErr[1])
    /\ exit # 0

\* The command the run sent last, and the one before it.
LastSent == IF Len(sent) >= 1 THEN sent[Len(sent)] ELSE S_empty
SentBeforeLast == IF Len(sent) >= 2 THEN sent[Len(sent) - 1] ELSE S_empty

\* The run sent a bring-up or bring-down command and queried the status
\* after it.
QueriedAfterSet ==
  /\ LastSent = S_status
  /\ SentBeforeLast = (IF sub = "up" THEN S_connect ELSE S_disconnect)

\* C26: `state up` prints "Connected" only when a status query sent after the
\* bring-up command returned connected, and returns its error whenever that
\* query returned not connected; `state down` prints "Disconnected" only
\* when a status query sent after the bring-down command returned not
\* connected, and returns its error whenever it returned connected.
C26_ConfirmedByQuery ==
  /\ (\E i \in 1..Len(printed) : printed[i] = M_connected) =>
       sub = "up" /\ QueriedAfterSet /\ reply = 1
  /\ (\E i \in 1..Len(printed) : printed[i] = M_disconnected) =>
       sub = "down" /\ QueriedAfterSet /\ reply = 0
  /\ (cpc = "exit" /\ QueriedAfterSet /\ sub = "up" /\ reply = 0) =>
       retErr = E_afterUp /\ printed = SelectSeq(printed, IsWarning)
  /\ (cpc = "exit" /\ QueriedAfterSet /\ sub = "down" /\ reply = 1) =>
       retErr = E_afterDown /\ printed = <<>>

C26_Witness ==
  /\ cpc = "exit" /\ sub = "up" /\ QueriedAfterSet
  /\ reply = 0 /\ retErr = E_afterUp

\* A step in which the run sends a bring-up or bring-down command.
SendsMutation ==
  /\ Len(sent') = Len(sent) + 1
  /\ sent'[Len(sent')] \in {S_connect, S_disconnect}

\* A step in which the first status query shows the state asked for is
\* already there.
QueryShowsNoNeed ==
  /\ cpc = "status"
  /\ sent' = <<S_status>>
  /\ reply' = (IF sub = "up" THEN 1 ELSE 0)

\* C27: a bring-up command is sent only by `state up` after its status query
\* returned not connected, a bring-down command only by `state down` after
\* its status query returned connected; when the query shows the state is
\* already there, the process exits with status 1 having sent only the
\* query.
C27_SendsOnlyWhenNeeded ==
  [][ /\ SendsMutation =>
          /\ sent = <<S_status>>
          /\ sent'[Len(sent')] = (IF sub = "up" THEN S_connect ELSE S_disconnect)
          /\ reply = (IF sub = "up" THEN 0 ELSE 1)
      /\ QueryShowsNoNeed => cpc' = "exit" /\ exit' = 1 ]_vars

C27_Witness ==
  /\ cpc = "exit" /\ exit = 1 /\ sub = "down"
  /\ sent = <<S_status>> /\ reply = 0 /\ printed = <<M_alreadyDown>>

\* ------------------------------------------- claims on the account commands
\* The argument is the UUID of a location of the list.
ArgIsListedId ==
  /\ ParseOk(arg)
  /\ \E i \in 1..Len(locations) : locations[i].id = UUIDString(arg)

\* The argument is not a UUID and is the name of a location of the list.
ArgIsListedName ==
  /\ ~ParseOk(arg)
  /\ \E i \in 1..Len(locations) : EqualFold(locations[i].name, arg)

\* C22: once `location set` has searched the list for its argument, an
\* argument that is the UUID of a listed location, like one that is the name
\* of a listed location in any letter case, is found: the location selected
\* is that one and the run does not end with "no such location".
C22_SetByIdOrName ==
  (acmd = "set" /\ (apc = "apply" \/ aerr = "no such location")) =>
    /\ ArgIsListedId =>
         /\ found /\ aerr # "no such location"
         /\ location.Location.id = UUIDString(arg)
    /\ ArgIsListedName =>
         /\ found /\ aerr # "no such location"
         /\ EqualFold(location.Location.name, arg)

\* C29: at the login of a new user who is not premium, with a non-empty
\* list of locations, the choice of the default location does not crash and
\* the location chosen is one of the non-premium locations of the list.
C29_DefaultIsNonPremium ==
  (acmd = "login" /\ ~premiumUser /\ Len(locations) >= 1) =>
    /\ aerr # "invalid argument to Intn"
    /\ apc \in {"setloc", "save", "done"} /\ location # ZeroWrapper =>
         /\ ~location.Premium
         /\ \E i \in 1..Len(locations) :
              /\ ~IsPremiumLocation(locations[i].id)
              /\ location.Location = locations[i]

====
